---------------------------- MODULE Spec2Model ----------------------------
(***************************************************************************)
(* Model of infinity-board (src/src/main.rs): the 12-tone pitch-class      *)
(* type Note with its iterator-based arithmetic, the tuning generator      *)
(* Guitar::from_tuning, the scale generator Scale::notes_list and the      *)
(* fretboard rendering loop of main.                                       *)
(*                                                                         *)
(* Three specifications share the module:                                  *)
(*   Spec      the program main, one run per command line;                 *)
(*   SpecFn    calls of the pure functions on inputs main never passes;    *)
(*   SpecIter  two live iterators returned by Note::cycle_from.            *)
(***************************************************************************)
EXTENDS Integers, Sequences, FiniteSets

VARIABLES
    pc,         \* main: position in the program
    cli,        \* main: the parsed command line (struct Cli)
    my_tuning,  \* main: the Guitar built by from_tuning
    notes,      \* main: scale.notes(), the membership set
    header,     \* main: the SCALE and NOTES lines printed
    row,        \* main: position of the outer loop (1-based string number), 0 when over
    fret_iter,  \* main: the inner loop's iterator, Take<Skip<SkipWhile<Cycle<NoteIter>>>>
    out,        \* main: the grid printed so far, one record per row
    overflow_checks, \* main: the build profile (debug: TRUE, release: FALSE)
    call,       \* SpecFn: the function called, its arguments and what it returned
    itA, itB    \* SpecIter: the iterators of two calls of cycle_from

vars == <<pc, cli, my_tuning, notes, header, row, fret_iter, out, overflow_checks,
          call, itA, itB>>
mainVars == <<pc, cli, my_tuning, notes, header, row, fret_iter, out, overflow_checks>>
iterVars == <<itA, itB>>

---------------------------------------------------------------------------
(* Bounds of the model *)

MaxStrings == 6     \* string_count ranges over 0..MaxStrings
MaxFret == 3        \* frets_start and frets_end range over 0..MaxFret
MaxOffset == 25     \* offset_by's argument ranges over -MaxOffset..MaxOffset
MaxYield == 13      \* elements drawn from one cycle_from iterator

---------------------------------------------------------------------------
(* enum Note *)

COUNT == 12

\* Note::iter(): the variants in declaration order
Canon == <<"C", "Cs", "D", "Ds", "E", "F", "Fs", "G", "Gs", "A", "As", "B">>

Note == {Canon[i] : i \in 1..COUNT}

\* impl Display for Note
Display(n) ==
    CASE n = "C"  -> "C"
      [] n = "Cs" -> "C#"
      [] n = "D"  -> "D"
      [] n = "Ds" -> "D#"
      [] n = "E"  -> "E"
      [] n = "F"  -> "F"
      [] n = "Fs" -> "F#"
      [] n = "G"  -> "G"
      [] n = "Gs" -> "G#"
      [] n = "A"  -> "A"
      [] n = "As" -> "A#"
      [] n = "B"  -> "B"

\* An iterator's next() returns Option<Note> and leaves the iterator in state st.
Some(n, st) == [some |-> TRUE, item |-> n, st |-> st]
None(st) == [some |-> FALSE, item |-> "None", st |-> st]

\* NoteIter (strum EnumIter): idx variants have been yielded
NoteIterNext(idx) ==
    IF idx < COUNT THEN Some(Canon[idx + 1], idx + 1) ELSE None(idx)

\* Note::cycle(): Cycle<NoteIter>; an exhausted inner iterator is replaced
\* by a clone of the original one
CycleNext(idx) ==
    LET r == NoteIterNext(idx)
    IN  IF r.some THEN r ELSE NoteIterNext(0)

\* SkipWhile<Cycle<NoteIter>> with the predicate |i| i != self:
\* [iter |-> Cycle state, flag |-> skipping is over, self |-> the captured note]
RECURSIVE SkipWhileNext(_)
SkipWhileNext(sw) ==
    LET r == CycleNext(sw.iter)
    IN  IF ~r.some THEN None([sw EXCEPT !.iter = r.st])
        ELSE IF sw.flag \/ ~(r.item # sw.self)
             THEN Some(r.item, [sw EXCEPT !.iter = r.st, !.flag = TRUE])
             ELSE SkipWhileNext([sw EXCEPT !.iter = r.st])

\* Note::cycle_from
\* (mutant) the skip_while left out: the sequence starts at the first variant
cycle_from_no_skip(self) == [iter |-> 0, flag |-> TRUE, self |-> self]

cycle_from(self) == [iter |-> 0, flag |-> FALSE, self |-> self]

\* Iterator::nth(n) on the SkipWhile: drop n elements, return the next one
RECURSIVE Nth(_, _)
Nth(sw, n) ==
    IF n = 0 THEN SkipWhileNext(sw)
    ELSE LET r == SkipWhileNext(sw)
         IN  IF r.some THEN Nth(r.st, n - 1) ELSE r

\* i32 `%`: the remainder truncated toward zero
Rem(a, b) == IF a >= 0 THEN a % b ELSE -((-a) % b)

\* i32::wrapping_rem_euclid for a positive divisor
\* (mutant) the remainder of the absolute value
wrapping_rem_abs(a, b) == (IF a >= 0 THEN a ELSE -a) % b

wrapping_rem_euclid(a, b) ==
    LET r == Rem(a, b)
    IN  IF r < 0 THEN r + b ELSE r

\* Note::offset_by; "PANIC" stands for the failed expect
offset_by(self, offset) ==
    LET off == wrapping_rem_euclid(offset, COUNT)
        r == Nth(cycle_from(self), off)
    IN  IF r.some THEN r.item ELSE "PANIC"

---------------------------------------------------------------------------
(* Guitar::from_tuning *)

\* GuitarString::new
GuitarString(n) == [start |-> n]

\* (mutant) the first element is stepped over like the later ones
StepByNext_no_first(sb) ==
    LET r == Nth(sb.iter, sb.step)
    IN  [r EXCEPT !.st = [sb EXCEPT !.iter = r.st, !.first_take = FALSE]]

\* StepBy<I>: [iter |-> I, step |-> the step minus one, first_take |-> BOOLEAN]
StepByNext(sb) ==
    LET r == IF sb.first_take THEN SkipWhileNext(sb.iter) ELSE Nth(sb.iter, sb.step)
    IN  [r EXCEPT !.st = [sb EXCEPT !.iter = r.st, !.first_take = FALSE]]

\* Take<StepBy<I>>: [iter |-> StepBy, n |-> elements left]
TakeStepByNext(tk) ==
    IF tk.n # 0
    THEN LET r == StepByNext(tk.iter)
         IN  [r EXCEPT !.st = [iter |-> r.st, n |-> tk.n - 1]]
    ELSE None(tk)

\* .map(GuitarString::new).collect()
RECURSIVE CollectStrings(_)
CollectStrings(tk) ==
    LET r == TakeStepByNext(tk)
    IN  IF r.some THEN <<GuitarString(r.item)>> \o CollectStrings(r.st) ELSE <<>>

\* the arm Tuning::Fourths
TuningFourths(start, string_count) ==
    CollectStrings([iter |-> [iter |-> cycle_from(start), step |-> 5 - 1,
                              first_take |-> TRUE],
                    n |-> string_count])

\* the arm Tuning::ScaleCentered: for_each over intervals.iter().cycle().take(string_count),
\* i elements of it consumed so far
intervals == <<4, 4, 4, 4>>

RECURSIVE ScaleCenteredLoop(_, _, _)
ScaleCenteredLoop(output, i, string_count) ==
    IF i = string_count THEN output
    ELSE LET interval == intervals[(i % Len(intervals)) + 1]
             last == output[Len(output)]
         IN  ScaleCenteredLoop(Append(output, offset_by(last, interval)),
                               i + 1, string_count)

TuningScaleCentered(start, string_count) ==
    LET output == ScaleCenteredLoop(<<start>>, 0, string_count)
    IN  [k \in 1..Len(output) |-> GuitarString(output[k])]

Tuning == {"Fourths", "ScaleCentered"}

from_tuning(string_count, start, notes_per_string, tuning) ==
    [strings |-> CASE tuning = "Fourths" -> TuningFourths(start, string_count)
                   [] tuning = "ScaleCentered" -> TuningScaleCentered(start, string_count),
     notes_per_string |-> notes_per_string]

---------------------------------------------------------------------------
(* ScaleMode and Scale *)

ScaleMode == {"Major"}

\* (mutant) the natural minor pattern in place of the major one
intervals_raw_minor(mode) ==
    CASE mode = "Major" -> <<2, 1, 2, 2, 1, 2, 2>>

\* ScaleMode::intervals_raw
intervals_raw(mode) ==
    CASE mode = "Major" -> <<2, 2, 1, 2, 2, 2, 1>>

\* Scale::notes_list: the for_each over the intervals, k of them applied so far
RECURSIVE NotesListLoop(_, _, _)
NotesListLoop(acc, ivs, k) ==
    IF k = Len(ivs) THEN acc
    ELSE LET latest == offset_by(acc[Len(acc)], ivs[k + 1])
         IN  NotesListLoop(Append(acc, latest), ivs, k + 1)

\* (mutant) the list starts empty: the root is not its first element
notes_list_no_root(scale) ==
    Tail(NotesListLoop(<<scale.start_note>>, intervals_raw(scale.mode), 0))

notes_list(scale) ==
    NotesListLoop(<<scale.start_note>>, intervals_raw(scale.mode), 0)

\* Scale::notes
scale_notes(scale) ==
    LET l == notes_list(scale) IN {l[k] : k \in 1..Len(l)}

---------------------------------------------------------------------------
(* SpecFn: calls of the pure functions *)

NoCall == [fn |-> "none"]
Offsets == (0 - MaxOffset)..MaxOffset

CallOffsetBy ==
    /\ call = NoCall
    /\ UNCHANGED <<mainVars, iterVars>>
    /\ \E p \in Note, n \in Offsets :
        call' = [fn |-> "offset_by", self |-> p, offset |-> n, ret |-> offset_by(p, n)]

CallFromTuning ==
    /\ call = NoCall
    /\ UNCHANGED <<mainVars, iterVars>>
    /\ \E t \in Tuning, p \in Note, c \in 0..MaxStrings, f \in 0..MaxFret :
        call' = [fn |-> "from_tuning", tuning |-> t, start |-> p, string_count |-> c,
                 notes_per_string |-> f, ret |-> from_tuning(c, p, f, t)]

CallNotesList ==
    /\ call = NoCall
    /\ UNCHANGED <<mainVars, iterVars>>
    /\ \E p \in Note, m \in ScaleMode :
        call' = [fn |-> "notes_list", scale |-> [start_note |-> p, mode |-> m],
                 ret |-> notes_list([start_note |-> p, mode |-> m])]

\* the caller drops the returned value
Return ==
    /\ call # NoCall
    /\ call' = NoCall
    /\ UNCHANGED <<mainVars, iterVars>>

NextFn == CallOffsetBy \/ CallFromTuning \/ CallNotesList \/ Return

---------------------------------------------------------------------------
(* SpecIter: two iterators returned by separate calls of Note::cycle_from *)

NoIter == [live |-> FALSE]

\* let it = p.cycle_from();
NewIter(p) == [live |-> TRUE, self |-> p, st |-> cycle_from(p), yielded |-> <<>>,
               ended |-> FALSE]

\* it.next(), the element drawn recorded in yielded
Drawn(it) ==
    LET r == SkipWhileNext(it.st)
    IN  IF r.some THEN [it EXCEPT !.st = r.st, !.yielded = Append(@, r.item)]
        ELSE [it EXCEPT !.st = r.st, !.ended = TRUE]

CallCycleFromA ==
    /\ \E p \in Note : itA' = NewIter(p)
    /\ UNCHANGED <<itB, mainVars, call>>
CallCycleFromB ==
    /\ \E p \in Note : itB' = NewIter(p)
    /\ UNCHANGED <<itA, mainVars, call>>

IterNextA ==
    /\ itA.live /\ ~itA.ended /\ Len(itA.yielded) < MaxYield
    /\ itA' = Drawn(itA)
    /\ UNCHANGED <<itB, mainVars, call>>

IterNextB ==
    /\ itB.live /\ ~itB.ended /\ Len(itB.yielded) < MaxYield
    /\ itB' = Drawn(itB)
    /\ UNCHANGED <<itA, mainVars, call>>

NextIter == CallCycleFromA \/ CallCycleFromB \/ IterNextA \/ IterNextB

---------------------------------------------------------------------------
(* main *)

\* (mutant) nothing is dropped: every row starts at the open string
SkipNext_no_skip(sk) ==
    LET r == SkipWhileNext(sk.iter)
    IN  [r EXCEPT !.st = [iter |-> r.st, n |-> 0]]

\* Skip<SkipWhile<..>>: [iter |-> SkipWhile, n |-> elements still to drop]
SkipNext(sk) ==
    LET r == IF sk.n > 0 THEN Nth(sk.iter, sk.n) ELSE SkipWhileNext(sk.iter)
    IN  [r EXCEPT !.st = [iter |-> r.st, n |-> 0]]

\* Take<Skip<..>>: [iter |-> Skip, n |-> elements left]. A count that wrapped
\* below zero stands for the usize 2^w + n.
TakeNext(tk) ==
    IF tk.n # 0
    THEN LET r == SkipNext(tk.iter)
         IN  [r EXCEPT !.st = [iter |-> r.st, n |-> tk.n - 1]]
    ELSE None(tk)

\* the closure print_note
print_note(scale, note) ==
    IF scale.start_note = note
    THEN [text |-> Display(note), emph |-> TRUE]
    ELSE [text |-> Display(note), emph |-> FALSE]

\* (mutant) without all_note_names the root is printed as any other scale note
PrintCell_root_as_O(scale, in_scale, all_note_names, note) ==
    IF note \in in_scale
    THEN IF all_note_names
         THEN print_note(scale, note)
         ELSE [text |-> "O", emph |-> FALSE]
    ELSE [text |-> "|", emph |-> FALSE]

\* the match that prints one cell
PrintCell(scale, in_scale, all_note_names, note) ==
    IF note \in in_scale
    THEN IF all_note_names
         THEN print_note(scale, note)
         ELSE IF note = scale.start_note
              THEN print_note(scale, note)
              ELSE [text |-> "O", emph |-> FALSE]
    ELSE [text |-> "|", emph |-> FALSE]

TheScale == [start_note |-> cli.start_note, mode |-> cli.mode]

\* rows are cut off after RowCap cells (a wrapped take count never runs out)
RowCap == MaxFret + 1

\* Cli::parse, from_tuning, scale.notes() and the three header lines
Setup ==
    /\ pc = "start"
    /\ my_tuning' = from_tuning(cli.string_count, "E", cli.frets_end, cli.tuning)
    /\ notes' = scale_notes(TheScale)
    /\ header' = [scale |-> <<Display(cli.start_note), cli.mode>>,
                  notes |-> [k \in 1..Len(notes_list(TheScale)) |->
                                Display(notes_list(TheScale)[k])]]
    /\ row' = Len(my_tuning'.strings)
    /\ pc' = "rows"
    /\ UNCHANGED <<cli, fret_iter, out, overflow_checks, call, iterVars>>

\* the next (num, string) of the reversed enumeration: the row's label is
\* printed, then the inner iterator is built
RowBegin ==
    /\ pc = "rows" /\ row >= 1
    /\ LET string == my_tuning.strings[row]
       IN  /\ out' = Append(out, [num |-> row, open |-> Display(string.start),
                                  start |-> string.start,
                                  sounding |-> <<>>, cells |-> <<>>, ended |-> FALSE])
           /\ IF my_tuning.notes_per_string < cli.frets_start /\ overflow_checks
              THEN pc' = "panic" /\ UNCHANGED fret_iter
              ELSE /\ fret_iter' = [iter |-> [iter |-> cycle_from(string.start),
                                              n |-> cli.frets_start],
                                    n |-> my_tuning.notes_per_string - cli.frets_start]
                   /\ pc' = "cells"
    /\ UNCHANGED <<cli, my_tuning, notes, header, row, overflow_checks, call, iterVars>>

\* one iteration of the inner loop
Cell ==
    /\ pc = "cells"
    /\ Len(out[Len(out)].cells) < RowCap
    /\ LET r == TakeNext(fret_iter)
       IN  /\ r.some
           /\ fret_iter' = r.st
           /\ out' = [out EXCEPT ![Len(out)] =
                        [@ EXCEPT !.sounding = Append(@, r.item),
                                  !.cells = Append(@, PrintCell(TheScale, notes,
                                                     cli.all_note_names, r.item))]]
    /\ UNCHANGED <<pc, cli, my_tuning, notes, header, row, overflow_checks, call, iterVars>>

\* the inner iterator is exhausted: the newline, and on to the next string
RowEnd ==
    /\ pc = "cells"
    /\ ~TakeNext(fret_iter).some
    /\ out' = [out EXCEPT ![Len(out)] = [@ EXCEPT !.ended = TRUE]]
    /\ row' = row - 1
    /\ pc' = "rows"
    /\ UNCHANGED <<cli, my_tuning, notes, header, fret_iter, overflow_checks, call, iterVars>>

\* the outer iterator is exhausted: main returns
Finish ==
    /\ pc = "rows" /\ row = 0
    /\ pc' = "done"
    /\ UNCHANGED <<cli, my_tuning, notes, header, row, fret_iter, out, overflow_checks,
                   call, iterVars>>

Next == Setup \/ RowBegin \/ Cell \/ RowEnd \/ Finish

---------------------------------------------------------------------------
(* Initial states and specifications *)

Idle == [live |-> FALSE]

MainIdle ==
    /\ pc = "idle" /\ cli = Idle /\ my_tuning = Idle /\ notes = {} /\ header = Idle
    /\ row = 0 /\ fret_iter = Idle /\ out = <<>> /\ overflow_checks = FALSE

Init ==
    /\ pc = "start"
    /\ cli \in [start_note : Note, mode : ScaleMode, string_count : 0..MaxStrings,
                all_note_names : BOOLEAN, frets_start : 0..MaxFret,
                frets_end : 0..MaxFret, tuning : Tuning]
    /\ overflow_checks \in BOOLEAN
    /\ my_tuning = Idle /\ notes = {} /\ header = Idle
    /\ row = 0 /\ fret_iter = Idle /\ out = <<>>
    /\ call = NoCall /\ itA = NoIter /\ itB = NoIter

Spec == Init /\ [][Next]_vars

InitFn == MainIdle /\ call = NoCall /\ itA = NoIter /\ itB = NoIter

SpecFn == InitFn /\ [][NextFn]_vars

InitIter == MainIdle /\ call = NoCall /\ itA = NoIter /\ itB = NoIter

SpecIter == InitIter /\ [][NextIter]_vars

---------------------------------------------------------------------------
(* The claims *)

\* the canonical ordinal of a pitch class, 0 for C to 11 for B
Ordinal(p) == CHOOSE i \in 0..(COUNT - 1) : Canon[i + 1] = p

\* the pitch class n semitones above p, by ordinal arithmetic
Above(p, n) == Canon[((Ordinal(p) + n) % COUNT) + 1]

StartsOf(strings) == [k \in 1..Len(strings) |-> strings[k].start]
TextsOf(cells) == [k \in 1..Len(cells) |-> cells[k].text]

\* C1: for every tuning scheme, reference pitch and string_count >= 0, the
\* strings built by from_tuning number exactly string_count.
C1_LengthIsStringCount ==
    call.fn = "from_tuning" => Len(call.ret.strings) = call.string_count

\* C2: with frets_start > frets_end rendering raises no error and every
\* row has zero cells.
C2_EmptyWindowRendersEmptyRows ==
    cli.frets_start > cli.frets_end =>
        /\ pc # "panic"
        /\ \A k \in 1..Len(out) : Len(out[k].cells) = 0

C3_Scenario ==
    /\ cli.start_note = "C" /\ cli.mode = "Major" /\ cli.tuning = "Fourths"
    /\ cli.string_count = 6 /\ cli.frets_start = 0 /\ cli.frets_end = 3
    /\ ~cli.all_note_names
    /\ Len(out) = 6 /\ out[6].num = 1 /\ out[6].ended

\* C3 as stated: in the scenario (C Major, Fourths, 6 strings, frets 0 to 3,
\* no note names) the cells of string 1 for frets 0, 1, 2 are O, |, |.
C3_Original ==
    C3_Scenario => out[6].open = "E" /\ TextsOf(out[6].cells) = <<"O", "|", "|">>

\* C3 as amended: in the scenario the cells of string 1 (open E) for frets
\* 0, 1, 2 are O, O, |, none of them emphasized: F belongs to C major.
C3_OpenEStringCells ==
    C3_Scenario =>
        /\ out[6].open = "E"
        /\ TextsOf(out[6].cells) = <<"O", "O", "|">>
        /\ \A k \in 1..3 : ~out[6].cells[k].emph

C3_Witness == C3_Scenario /\ Len(out[6].cells) = 3 /\ pc = "done"

C4_Scenario ==
    /\ call.fn = "from_tuning" /\ call.tuning = "Fourths"
    /\ call.string_count = 6 /\ call.start = "E"

\* C4 as stated: Fourths tuning with 6 strings from E is E, A, D, G, B, E.
C4_Original ==
    C4_Scenario => StartsOf(call.ret.strings) = <<"E", "A", "D", "G", "B", "E">>

\* C4 as amended: Fourths tuning with 6 strings from E is E, A, D, G, C, F,
\* every string 5 semitones above the one before.
C4_FourthsFromE ==
    C4_Scenario => StartsOf(call.ret.strings) = <<"E", "A", "D", "G", "C", "F">>

C4_Witness == C4_Scenario /\ Len(call.ret.strings) = 6

\* C5: ScaleCentered tuning with 4 strings from C is exactly C, E, G#, C.
C5_ScaleCenteredFromC ==
    /\ call.fn = "from_tuning" /\ call.tuning = "ScaleCentered"
    /\ call.string_count = 4 /\ call.start = "C"
    => StartsOf(call.ret.strings) = <<"C", "E", "Gs", "C">>

\* C6: for every pitch class p and integer n, p.offset_by(n) does not fail and
\* is the pitch class of ordinal (ordinal(p) + n) mod 12, the remainder taken
\* non-negative; C + 1 = C#, C - 1 = B, and 0 and 12 leave p as it is.
C6_OffsetByIsModularAddition ==
    call.fn = "offset_by" =>
        /\ call.ret \in Note
        /\ Ordinal(call.ret) = (Ordinal(call.self) + call.offset) % COUNT
        /\ (call.self = "C" /\ call.offset = 1 => call.ret = "Cs")
        /\ (call.self = "C" /\ call.offset = -1 => call.ret = "B")
        /\ (call.offset \in {0, 12} => call.ret = call.self)

C6_Witness ==
    call.fn = "offset_by" /\ call.self = "D" /\ call.offset = -15 /\ call.ret = "B"

\* the cell the precedence of section 4.4 gives a sounding pitch class
CellByPrecedence(note) ==
    IF note \notin notes THEN [text |-> "|", emph |-> FALSE]
    ELSE IF note = cli.start_note THEN [text |-> Display(note), emph |-> TRUE]
    ELSE IF cli.all_note_names THEN [text |-> Display(note), emph |-> FALSE]
    ELSE [text |-> "O", emph |-> FALSE]

\* C7: every printed cell is | if the sounding pitch is outside the scale's
\* note set, else the emphasized name if it is the root (in both display
\* modes), else the plain name if all_note_names, else O.
C7_CellPrecedence ==
    \A r \in 1..Len(out) : \A k \in 1..Len(out[r].cells) :
        out[r].cells[k] = CellByPrecedence(out[r].sounding[k])

\* a row showing a root, another scale note and a note outside the scale
C7_Witness ==
    /\ pc = "done" /\ Len(out) >= 1
    /\ ~cli.all_note_names /\ cli.start_note = "F"
    /\ \E a, b, c \in 1..Len(out[1].cells) :
        /\ out[1].cells[a] = [text |-> "F", emph |-> TRUE]
        /\ out[1].cells[b].text = "O"
        /\ out[1].cells[c].text = "|"

Major == <<2, 2, 1, 2, 2, 2, 1>>

\* C8: for Major and every root, notes_list has 8 notes, the first and the last
\* the root, each next one the previous one raised by the matching interval of
\* 2,2,1,2,2,2,1; from C it is C, D, E, F, G, A, B, C.
C8_MajorNotesList ==
    call.fn = "notes_list" /\ call.scale.mode = "Major" =>
        /\ Len(call.ret) = 8
        /\ call.ret[1] = call.scale.start_note
        /\ call.ret[8] = call.scale.start_note
        /\ \A i \in 1..7 : call.ret[i + 1] = Above(call.ret[i], Major[i])
        /\ (call.scale.start_note = "C" =>
                call.ret = <<"C", "D", "E", "F", "G", "A", "B", "C">>)

C8_Witness ==
    /\ call.fn = "notes_list" /\ call.scale.start_note = "A"
    /\ call.ret = <<"A", "B", "Cs", "D", "E", "Fs", "Gs", "A">>

\* C9: with frets_start <= frets_end the rows are those of the strings from
\* the highest 1-based index down to 1, a finished row has exactly
\* frets_end - frets_start cells, and the k-th cell (from 0) of a row is the
\* cell of the pitch class frets_start + k semitones above the open string.
C9_GridOrder ==
    cli.frets_start <= cli.frets_end =>
        /\ pc # "panic"
        /\ \A r \in 1..Len(out) :
            /\ out[r].num = Len(my_tuning.strings) - r + 1
            /\ out[r].start = my_tuning.strings[out[r].num].start
            /\ Len(out[r].cells) <= cli.frets_end - cli.frets_start
            /\ (out[r].ended \/ r < Len(out) =>
                    Len(out[r].cells) = cli.frets_end - cli.frets_start)
            /\ \A k \in 1..Len(out[r].cells) :
                /\ out[r].sounding[k] = Above(out[r].start, cli.frets_start + k - 1)
                /\ out[r].cells[k] = PrintCell(TheScale, notes, cli.all_note_names,
                                               out[r].sounding[k])
        /\ (pc = "done" => /\ Len(out) = Len(my_tuning.strings)
                           /\ \A r \in 1..Len(out) : out[r].ended)

C9_Witness ==
    /\ pc = "done" /\ cli.frets_start = 1 /\ cli.frets_end = 3
    /\ Len(out) = 3 /\ out[1].num = 3 /\ out[3].num = 1
    /\ out[1].sounding = <<"Ds", "E">>

IterAsClaimed(it) ==
    it.live =>
        /\ ~it.ended
        /\ SkipWhileNext(it.st).some
        /\ \A k \in 1..Len(it.yielded) : it.yielded[k] = Above(it.self, k - 1)
        /\ (Len(it.yielded) >= COUNT =>
                {it.yielded[k] : k \in 1..COUNT} = Note)

\* C10: the sequence of p.cycle_from() starts with p, runs through the 12 pitch
\* classes once each in canonical cyclic order, repeats with period 12 and does
\* not end; the sequences of two calls advance independently of each other.
C10_CycleFrom == IterAsClaimed(itA) /\ IterAsClaimed(itB)

C10_Witness ==
    /\ itA.live /\ itB.live /\ itA.self = "G" /\ itB.self = "D"
    /\ Len(itA.yielded) = COUNT + 1 /\ itA.yielded[COUNT + 1] = "G"
    /\ Len(itB.yielded) = 2 /\ itB.yielded = <<"D", "Ds">>

=============================================================================
